---- MODULE Spec2Model ----
(***************************************************************************)
(* Universe diffs (unidiff.c): named, reversible patches to the planets    *)
(* and fleets of star systems, kept in a process-wide stack, saved by name *)
(* and re-applied on load.                                                 *)
(*                                                                         *)
(* Every public function of unidiff.c is one action; the static helpers    *)
(* are operators that take the stack and the universe and return the new   *)
(* ones together with the list of world-mutator calls they made.           *)
(*                                                                         *)
(* The Queue of the scripts (scripts/queue.lua) is modelled beside it: a    *)
(* table with the fields first and last and the elements at the integer    *)
(* keys, and one action per function.                                      *)
(***************************************************************************)
EXTENDS Integers, Sequences, FiniteSets, TLC

(***************************************************************************)
(* Bounds of the model.                                                    *)
(***************************************************************************)
\* Longest list of planet/fleet elements under the system element of an
\* enumerated diff definition.
MaxHunks == 2
\* Most copies of one planet (or fleet) a system may hold.
MaxCount == 1
\* Largest value the fields first and last of a Queue get.
MaxIndex == 3

(***************************************************************************)
(* State.                                                                  *)
(***************************************************************************)
VARIABLES
   diff_stack,   \* the stack of applied diffs, diff_stack[1..diff_nstack]
   world,        \* the universe
   doc,          \* the content of dat/unidiff.xml
   strdup_null,  \* what strdup(NULL) does in this build
   last,         \* the last call: its arguments and what it did
   queue,        \* a Queue of the scripts
   qcall         \* the last call of a Queue function and what it did

vars == <<diff_stack, world, doc, strdup_null, last, queue, qcall>>

(***************************************************************************)
(* The universe (space.c), as far as the diffs touch it.                   *)
(***************************************************************************)
NULL == "NULL"

Systems == {"S1", "S2"}
Planets == {"A"}
Fleets == {"F"}
Chances == {50}
FleetSpecs == [fleet : Fleets, chance : Chances]

\* Diff names a caller may ask for; "W" is in no definitions document.
Names == {"X", "Y", "Z", "W"}

\* A universe: how many times each system holds each planet and each fleet
\* (a system's planets and fleets are arrays, an item may be held twice).
Worlds(n) ==
   [planets : [Systems -> [Planets -> 0..n]],
    fleets : [Systems -> [FleetSpecs -> 0..n]]]

WorldOK(w) ==
   /\ \A s \in Systems : \A p \in Planets : w.planets[s][p] <= MaxCount
   /\ \A s \in Systems : \A f \in FleetSpecs : w.fleets[s][f] <= MaxCount

\* The planet set and the fleet set of a system.
PlanetSet(w, s) == {p \in Planets : w.planets[s][p] > 0}
FleetSet(w, s) == {f \in FleetSpecs : w.fleets[s][f] > 0}
SameSets(w1, w2) ==
   \A s \in Systems : /\ PlanetSet(w1, s) = PlanetSet(w2, s)
                      /\ FleetSet(w1, s) = FleetSet(w2, s)

system_get(name) == IF name \in Systems THEN name ELSE NULL

fleet_get(name) == IF name \in Fleets THEN name ELSE NULL

system_addPlanet(w, sys, name) ==
   IF sys = NULL \/ name \notin Planets
   THEN [ret |-> -1, world |-> w]
   ELSE [ret |-> 0, world |-> [w EXCEPT !.planets[sys][name] = @ + 1]]

system_rmPlanet(w, sys, name) ==
   IF sys = NULL \/ name \notin Planets
   THEN [ret |-> -1, world |-> w]
   ELSE IF w.planets[sys][name] = 0
   THEN [ret |-> -1, world |-> w]
   ELSE [ret |-> 0, world |-> [w EXCEPT !.planets[sys][name] = @ - 1]]

system_addFleet(w, sys, fleet) ==
   IF sys = NULL \/ fleet \notin FleetSpecs
   THEN [ret |-> -1, world |-> w]
   ELSE [ret |-> 0, world |-> [w EXCEPT !.fleets[sys][fleet] = @ + 1]]

system_rmFleet(w, sys, fleet) ==
   IF sys = NULL \/ fleet \notin FleetSpecs
   THEN [ret |-> -1, world |-> w]
   ELSE IF w.fleets[sys][fleet] = 0
   THEN [ret |-> -1, world |-> w]
   ELSE [ret |-> 0, world |-> [w EXCEPT !.fleets[sys][fleet] = @ - 1]]

(***************************************************************************)
(* XML documents: the definitions document dat/unidiff.xml and the save    *)
(* document.                                                               *)
(***************************************************************************)
\* <planet name="...">text</planet>, <fleet name="..." chance="...">text</fleet>
PlanetElem(name, text) ==
   [tag |-> "planet", name |-> name, chance |-> <<>>, text |-> text]
FleetElem(name, chance, text) ==
   [tag |-> "fleet", name |-> name, chance |-> chance, text |-> text]
\* <system name="...">children</system>
SystemElem(name, children) ==
   [tag |-> "system", name |-> name, children |-> children]
\* <unidiff name="...">children</unidiff>
UnidiffElem(name, children) ==
   [tag |-> "unidiff", name |-> name, children |-> children]
\* Any other element of the root, skipped by the lookup.
OtherElem == [tag |-> "other", name |-> NULL, children |-> <<>>]

XmlDoc(root, children) == [root |-> root, children |-> children]

xml_isNode(node, tag) == node.tag = tag

\* atoi of an attribute's digits.
RECURSIVE atoi(_)
atoi(digits) ==
   IF digits = <<>> THEN 0
   ELSE 10 * atoi(SubSeq(digits, 1, Len(digits) - 1)) + digits[Len(digits)]

(***************************************************************************)
(* Hunks and diffs.                                                        *)
(***************************************************************************)
HUNK_TARGET_NONE == "HUNK_TARGET_NONE"
HUNK_TARGET_SYSTEM == "HUNK_TARGET_SYSTEM"

HUNK_TYPE_NONE == "HUNK_TYPE_NONE"
HUNK_TYPE_PLANET_ADD == "HUNK_TYPE_PLANET_ADD"
HUNK_TYPE_PLANET_REMOVE == "HUNK_TYPE_PLANET_REMOVE"
HUNK_TYPE_FLEET_ADD == "HUNK_TYPE_FLEET_ADD"
HUNK_TYPE_FLEET_REMOVE == "HUNK_TYPE_FLEET_REMOVE"

\* The union u of a hunk: a planet name, or a fleet and its chance.
PlanetData(name) == [member |-> "name", name |-> name, chance |-> 0]
FleetData(fleet, chance) == [member |-> "fleet", name |-> fleet, chance |-> chance]
FleetOf(u) == [fleet |-> u.name, chance |-> u.chance]

UniHunk(ttype, tname, type, u) ==
   [target |-> [type |-> ttype, name |-> tname], type |-> type, u |-> u]

\* memset(diff, 0, sizeof(UniDiff_t))
ZeroDiff == [name |-> NULL, applied |-> <<>>, failed |-> <<>>]

\* One call of a world mutator, as the universe sees it.
Call(fn, hunk, ret) ==
   [fn |-> fn, sys |-> hunk.target.name, u |-> hunk.u, ret |-> ret]

(***************************************************************************)
(* unidiff.c, static helpers.  The diff stack is a sequence of UniDiff_t;  *)
(* a pointer into it is an index, NULL is index 0.                         *)
(***************************************************************************)
\* A lookup that looks at the record at index i only.
GetFrom_one(stack, name, i) ==
   IF i > Len(stack) THEN 0
   ELSE IF stack[i].name = name THEN i
   ELSE 0

RECURSIVE GetFrom(_, _, _)
GetFrom(stack, name, i) ==
   IF i > Len(stack) THEN 0
   ELSE IF stack[i].name = name THEN i
   ELSE GetFrom(stack, name, i + 1)

\* A diff_get whose loop starts one record too late.
diff_get_from_second(stack, name) == GetFrom(stack, name, 2)

diff_get(stack, name) == GetFrom(stack, name, 1)

\* A diff_isApplied that never finds the diff.
diff_isApplied_never(stack, name) == 0

diff_isApplied(stack, name) == IF diff_get(stack, name) # 0 THEN 1 ELSE 0

diff_newDiff(stack) == Append(stack, ZeroDiff)

\* A heap pointer: the one held in a field of the hunk at place k of a list
\* (applied or failed) of the diff named owner, or in the diff itself, or in
\* a local variable of a function.
Ptr(owner, list, k, field) ==
   [owner |-> owner, list |-> list, k |-> k, field |-> field]

\* The heap events of a call: an allocation, or a free of what a pointer
\* holds.
Alloc(ptr) == [ev |-> "alloc", ptr |-> ptr]
Free(ptr) == [ev |-> "free", ptr |-> ptr]

\* The outcome of a helper: its return value, the stack and the universe it
\* leaves, the world-mutator calls it made, in order, and its heap events
\* (mem), in order; fault says that the process was killed inside the helper.
Outcome(ret, stack, w, calls) ==
   [ret |-> ret, stack |-> stack, world |-> w, calls |-> calls, mem |-> <<>>,
    fault |-> FALSE]

diff_patchHunk(w, hunk) ==
   LET sys == system_get(hunk.target.name)
       Done(fn, r) ==
          [ret |-> r.ret, world |-> r.world, calls |-> <<Call(fn, hunk, r.ret)>>]
   IN CASE hunk.type = HUNK_TYPE_PLANET_ADD ->
              Done("system_addPlanet", system_addPlanet(w, sys, hunk.u.name))
        [] hunk.type = HUNK_TYPE_PLANET_REMOVE ->
              Done("system_rmPlanet", system_rmPlanet(w, sys, hunk.u.name))
        [] hunk.type = HUNK_TYPE_FLEET_ADD ->
              Done("system_addFleet", system_addFleet(w, sys, FleetOf(hunk.u)))
        [] hunk.type = HUNK_TYPE_FLEET_REMOVE ->
              Done("system_rmFleet", system_rmFleet(w, sys, FleetOf(hunk.u)))
        [] OTHER -> [ret |-> -1, world |-> w, calls |-> <<>>]

\* A diff_hunkFailed that files the hunk with the applied ones.
diff_hunkFailed_in_applied(diff, hunk) == [diff EXCEPT !.applied = Append(@, hunk)]

diff_hunkFailed(diff, hunk) == [diff EXCEPT !.failed = Append(@, hunk)]

diff_hunkSuccess(diff, hunk) == [diff EXCEPT !.applied = Append(@, hunk)]

\* The type a planet or fleet element's text gives the local hunk; any other
\* text leaves hunk.type as it was.
PlanetType(text, old) ==
   IF text = "add" THEN HUNK_TYPE_PLANET_ADD
   ELSE IF text = "remove" THEN HUNK_TYPE_PLANET_REMOVE
   ELSE old

FleetType(text, old) ==
   IF text = "add" THEN HUNK_TYPE_FLEET_ADD
   ELSE IF text = "remove" THEN HUNK_TYPE_FLEET_REMOVE
   ELSE old

\* Patches with one built hunk: applies it and files it in the diff at index d.
\* acc holds the stack, the universe, the calls so far and the local hunk.
PatchOne(acc, d, hunk) ==
   LET r == diff_patchHunk(acc.world, hunk)
       diff == IF r.ret < 0 THEN diff_hunkFailed(acc.stack[d], hunk)
               ELSE diff_hunkSuccess(acc.stack[d], hunk)
   IN [stack |-> [acc.stack EXCEPT ![d] = diff],
       world |-> r.world,
       calls |-> acc.calls \o r.calls,
       hunk |-> hunk,
       fault |-> FALSE]

\* strdup(base.target.u.name) for a system element without a name is
\* strdup(NULL), which is undefined: the build either kills the process there
\* or goes on with NULL.
StrdupFaults(base) == base.name = NULL /\ strdup_null = "SIGSEGV"

\* The inner loop of diff_patch: the children of one system element.
RECURSIVE PatchChildren(_, _, _, _, _)
PatchChildren(acc, d, base, nodes, j) ==
   IF j > Len(nodes) \/ acc.fault THEN acc
   ELSE LET cur == nodes[j]
            next ==
               IF xml_isNode(cur, "planet")
               THEN IF StrdupFaults(base) THEN [acc EXCEPT !.fault = TRUE]
                    ELSE PatchOne(acc, d,
                            UniHunk(base.type, base.name,
                                    PlanetType(cur.text, acc.hunk.type),
                                    PlanetData(cur.name)))
               ELSE IF xml_isNode(cur, "fleet")
               THEN IF StrdupFaults(base) THEN [acc EXCEPT !.fault = TRUE]
                    ELSE PatchOne(acc, d,
                            UniHunk(base.type, base.name,
                                    FleetType(cur.text, acc.hunk.type),
                                    FleetData(fleet_get(cur.name), atoi(cur.chance))))
               ELSE acc
        IN PatchChildren(next, d, base, nodes, j + 1)

\* The outer loop of diff_patch: the system elements of the unidiff element.
RECURSIVE PatchSystems(_, _, _, _)
PatchSystems(acc, d, nodes, i) ==
   IF i > Len(nodes) \/ acc.fault THEN acc
   ELSE LET node == nodes[i]
            base == [type |-> HUNK_TARGET_SYSTEM, name |-> node.name]
            next == IF xml_isNode(node, "system")
                    THEN PatchChildren(acc, d, base, node.children, 1)
                    ELSE acc
        IN PatchSystems(next, d, nodes, i + 1)

\* hunk0 is what the local variable hunk holds on entry (it is not initialised).
diff_patch(stack, w, parent, hunk0) ==
   LET st0 == diff_newDiff(stack)
       d == Len(st0)
       st1 == [st0 EXCEPT ![d] = [ZeroDiff EXCEPT !.name = parent.name]]
       r == PatchSystems([stack |-> st1, world |-> w, calls |-> <<>>,
                          hunk |-> hunk0, fault |-> FALSE], d, parent.children, 1)
   IN [Outcome(0, r.stack, r.world, r.calls) EXCEPT !.fault = r.fault]

\* The hunk diff_removeDiff re-applies for an applied hunk: the same hunk
\* with the inverse type; none for an unknown type.
\* An InvertType that leaves the add and remove types as they are.
InvertType_same(type) ==
   IF type \in {HUNK_TYPE_PLANET_ADD, HUNK_TYPE_PLANET_REMOVE,
               HUNK_TYPE_FLEET_ADD, HUNK_TYPE_FLEET_REMOVE}
   THEN type ELSE HUNK_TYPE_NONE

InvertType(type) ==
   CASE type = HUNK_TYPE_PLANET_ADD -> HUNK_TYPE_PLANET_REMOVE
     [] type = HUNK_TYPE_PLANET_REMOVE -> HUNK_TYPE_PLANET_ADD
     [] type = HUNK_TYPE_FLEET_ADD -> HUNK_TYPE_FLEET_REMOVE
     [] type = HUNK_TYPE_FLEET_REMOVE -> HUNK_TYPE_FLEET_ADD
     [] OTHER -> HUNK_TYPE_NONE

\* A revert loop that gives up at the first inverse the universe refuses.
RECURSIVE RevertFrom_stop(_, _, _)
RevertFrom_stop(acc, applied, k) ==
   IF k > Len(applied) THEN acc
   ELSE LET hunk == [applied[k] EXCEPT !.type = InvertType(@)]
            r == IF hunk.type = HUNK_TYPE_NONE
                 THEN [ret |-> 0, world |-> acc.world, calls |-> <<>>]
                 ELSE diff_patchHunk(acc.world, hunk)
        IN IF r.ret < 0
           THEN [world |-> r.world, calls |-> acc.calls \o r.calls]
           ELSE RevertFrom_stop([world |-> r.world, calls |-> acc.calls \o r.calls],
                                applied, k + 1)

\* The loop of diff_removeDiff over diff->applied, from index k on.
RECURSIVE RevertFrom(_, _, _)
RevertFrom(acc, applied, k) ==
   IF k > Len(applied) THEN acc
   ELSE LET hunk == [applied[k] EXCEPT !.type = InvertType(@)]
            r == IF hunk.type = HUNK_TYPE_NONE
                 THEN [world |-> acc.world, calls |-> <<>>]
                 ELSE diff_patchHunk(acc.world, hunk)
        IN RevertFrom([world |-> r.world, calls |-> acc.calls \o r.calls],
                      applied, k + 1)

\* The frees of diff_cleanupHunk for the hunk at place k of a list of the
\* diff named owner: the target name when it is not NULL, and for a planet
\* type what u.name holds.
diff_cleanupHunk(owner, list, k, hunk) ==
   (IF hunk.target.name # NULL
    THEN <<Free(Ptr(owner, list, k, "target.u.name"))>> ELSE <<>>)
   \o (IF hunk.type \in {HUNK_TYPE_PLANET_ADD, HUNK_TYPE_PLANET_REMOVE}
           /\ hunk.u.name # NULL
       THEN <<Free(Ptr(owner, list, k, "u.name"))>> ELSE <<>>)

\* The frees of diff_cleanupHunk for the hunks of a list from place k on.
RECURSIVE CleanupHunks(_, _, _, _)
CleanupHunks(owner, list, hunks, k) ==
   IF k > Len(hunks) THEN <<>>
   ELSE diff_cleanupHunk(owner, list, k, hunks[k])
           \o CleanupHunks(owner, list, hunks, k + 1)

\* A diff_cleanup that leaves the failed hunks alone.
diff_cleanup_applied_only(diff) ==
   <<Free(Ptr(diff.name, "diff", 0, "name"))>>
   \o CleanupHunks(diff.name, "applied", diff.applied, 1)

\* The frees of diff_cleanup: the name, the applied hunks, the failed hunks.
diff_cleanup(diff) ==
   <<Free(Ptr(diff.name, "diff", 0, "name"))>>
   \o CleanupHunks(diff.name, "applied", diff.applied, 1)
   \o CleanupHunks(diff.name, "failed", diff.failed, 1)

\* A compaction that drops the last record of the stack instead.
Compact_drop_last(stack, i) == SubSeq(stack, 1, Len(stack) - 1)

\* memmove of the records behind index i one place down.
Compact(stack, i) ==
   [k \in 1..(Len(stack) - 1) |-> IF k < i THEN stack[k] ELSE stack[k + 1]]

\* A diff_removeDiff that reverts the applied hunks from the last to the first.
diff_removeDiff_backwards(stack, w, i) ==
   LET n == Len(stack[i].applied)
       r == RevertFrom([world |-> w, calls |-> <<>>],
                       [k \in 1..n |-> stack[i].applied[n + 1 - k]], 1)
   IN Outcome(0, Compact(stack, i), r.world, r.calls)

diff_removeDiff(stack, w, i) ==
   LET r == RevertFrom([world |-> w, calls |-> <<>>],
                       stack[i].applied, 1)
   IN [Outcome(0, Compact(stack, i), r.world, r.calls)
          EXCEPT !.mem = diff_cleanup(stack[i])]

(***************************************************************************)
(* unidiff.c, public functions, as operators on (stack, universe).         *)
(***************************************************************************)
\* The while loop of diff_clear; removed lists the names of the diffs it
\* removed, in the order it removed them.
\* A diff_clear that removes the first diff of the stack each time.
RECURSIVE ClearLoop_first(_)
ClearLoop_first(acc) ==
   IF Len(acc.stack) > 0
   THEN LET r == diff_removeDiff(acc.stack, acc.world, 1)
        IN ClearLoop_first([stack |-> r.stack, world |-> r.world,
                            calls |-> acc.calls \o r.calls,
                            mem |-> acc.mem \o r.mem, fault |-> FALSE,
                            removed |-> Append(acc.removed, acc.stack[1].name)])
   ELSE acc

RECURSIVE ClearLoop(_)
ClearLoop(acc) ==
   IF Len(acc.stack) > 0
   THEN LET last_i == Len(acc.stack)
            r == diff_removeDiff(acc.stack, acc.world, last_i)
        IN ClearLoop([stack |-> r.stack, world |-> r.world,
                      calls |-> acc.calls \o r.calls,
                      mem |-> acc.mem \o r.mem, fault |-> FALSE,
                      removed |-> Append(acc.removed, acc.stack[last_i].name)])
   ELSE acc

diff_clear(stack, w) ==
   ClearLoop([stack |-> stack, world |-> w, calls |-> <<>>, mem |-> <<>>,
              fault |-> FALSE, removed |-> <<>>])

\* What the caller gets from a function declared void.
VOID == "void"

\* A diff_remove that removes the last diff when it finds none of the name.
diff_remove_last(stack, w, name) ==
   IF diff_get(stack, name) = 0
   THEN IF Len(stack) = 0 THEN Outcome(VOID, stack, w, <<>>)
        ELSE [diff_removeDiff(stack, w, Len(stack)) EXCEPT !.ret = VOID]
   ELSE [diff_removeDiff(stack, w, diff_get(stack, name)) EXCEPT !.ret = VOID]

diff_remove(stack, w, name) ==
   IF diff_get(stack, name) = 0 THEN Outcome(VOID, stack, w, <<>>)
   ELSE [diff_removeDiff(stack, w, diff_get(stack, name)) EXCEPT !.ret = VOID]

\* The do-while of diff_apply over the children of the root: the index of the
\* first unidiff element named name, 0 when there is none.
RECURSIVE FindUnidiff(_, _, _)
FindUnidiff(nodes, name, i) ==
   IF i > Len(nodes) THEN 0
   ELSE IF xml_isNode(nodes[i], "unidiff") /\ nodes[i].name = name THEN i
   ELSE FindUnidiff(nodes, name, i + 1)

\* A diff_apply that reports success when it finds no unidiff element of the
\* name.
diff_apply_missing_ok(stack, w, d, name, hunk0) ==
   IF diff_isApplied(stack, name) = 1 THEN Outcome(0, stack, w, <<>>)
   ELSE IF d.root # "unidiffs" THEN Outcome(0, stack, w, <<>>)
   ELSE IF d.children = <<>> THEN Outcome(0, stack, w, <<>>)
   ELSE IF FindUnidiff(d.children, name, 1) # 0
   THEN [diff_patch(stack, w, d.children[FindUnidiff(d.children, name, 1)], hunk0)
            EXCEPT !.ret = 0]
   ELSE Outcome(0, stack, w, <<>>)

\* The locals buf and doc of diff_apply: pack_readfile and xmlParseMemory
\* fill them, xmlFreeDoc and free release them.
ReadFile ==
   <<Alloc(Ptr("diff_apply", "local", 0, "buf")),
     Alloc(Ptr("diff_apply", "local", 0, "doc"))>>
FreeFile ==
   <<Free(Ptr("diff_apply", "local", 0, "doc")),
     Free(Ptr("diff_apply", "local", 0, "buf"))>>

\* diff_apply after diff_patch has returned: the clean up and return 0; they
\* are not reached when the process was killed in diff_patch.
Patched(r) ==
   IF r.fault THEN [r EXCEPT !.mem = ReadFile \o @]
   ELSE [r EXCEPT !.ret = 0, !.mem = ReadFile \o @ \o FreeFile]

\* d is the content of dat/unidiff.xml at the time of the call.
diff_apply(stack, w, d, name, hunk0) ==
   IF diff_isApplied(stack, name) = 1 THEN Outcome(0, stack, w, <<>>)
   ELSE IF d.root # "unidiffs"
   THEN [Outcome(0, stack, w, <<>>) EXCEPT !.mem = ReadFile]
   ELSE IF d.children = <<>>
   THEN [Outcome(0, stack, w, <<>>) EXCEPT !.mem = ReadFile]
   ELSE IF FindUnidiff(d.children, name, 1) # 0
   THEN Patched(diff_patch(stack, w, d.children[FindUnidiff(d.children, name, 1)],
                           hunk0))
   ELSE [Outcome(-1, stack, w, <<>>) EXCEPT !.mem = ReadFile \o FreeFile]

\* The element diff_save writes: <diffs><diff>name</diff>...</diffs>.
DiffElem(name) == [tag |-> "diff", text |-> name]

diff_save(stack) ==
   [tag |-> "diffs", children |-> [i \in 1..Len(stack) |-> DiffElem(stack[i].name)]]

\* diff_load goes on from acc with what one diff_apply left (its return
\* value is not looked at).
AfterApply(acc, r) ==
   [stack |-> r.stack, world |-> r.world, calls |-> acc.calls \o r.calls,
    mem |-> acc.mem \o r.mem, fault |-> r.fault, removed |-> acc.removed]

\* A diff_load loop that gives up at the first entry diff_apply fails for.
RECURSIVE LoadEntries_abort(_, _, _, _, _)
LoadEntries_abort(acc, d, nodes, j, hunk0) ==
   IF j > Len(nodes) \/ acc.fault THEN acc
   ELSE IF xml_isNode(nodes[j], "diff")
   THEN IF diff_apply(acc.stack, acc.world, d, nodes[j].text, hunk0).ret < 0
        THEN acc
        ELSE LoadEntries_abort(
                AfterApply(acc, diff_apply(acc.stack, acc.world, d, nodes[j].text, hunk0)),
                d, nodes, j + 1, hunk0)
   ELSE LoadEntries_abort(acc, d, nodes, j + 1, hunk0)

\* The inner loop of diff_load: the children of one diffs element.
RECURSIVE LoadEntries(_, _, _, _, _)
LoadEntries(acc, d, nodes, j, hunk0) ==
   IF j > Len(nodes) \/ acc.fault THEN acc
   ELSE IF xml_isNode(nodes[j], "diff")
   THEN LoadEntries(
           AfterApply(acc, diff_apply(acc.stack, acc.world, d, nodes[j].text, hunk0)),
           d, nodes, j + 1, hunk0)
   ELSE LoadEntries(acc, d, nodes, j + 1, hunk0)

\* The outer loop of diff_load: the children of parent.
RECURSIVE LoadNodes(_, _, _, _, _)
LoadNodes(acc, d, nodes, i, hunk0) ==
   IF i > Len(nodes) \/ acc.fault THEN acc
   ELSE LET node == nodes[i]
            next == IF xml_isNode(node, "diffs")
                    THEN LoadEntries(acc, d, node.children, 1, hunk0)
                    ELSE acc
        IN LoadNodes(next, d, nodes, i + 1, hunk0)

\* A diff_load that does not clear the stack first.
diff_load_no_clear(stack, w, d, parent, hunk0) ==
   LoadNodes([stack |-> stack, world |-> w, calls |-> <<>>, mem |-> <<>>,
              fault |-> FALSE, removed |-> <<>>],
             d, parent, 1, hunk0)

diff_load(stack, w, d, parent, hunk0) ==
   LoadNodes(diff_clear(stack, w), d, parent, 1, hunk0)

(***************************************************************************)
(* The documents the model draws from.                                     *)
(***************************************************************************)
F50 == <<5, 0>>

\* The planet and fleet elements an enumerated diff definition is made of.
Elems ==
   {PlanetElem("A", "add"), PlanetElem("A", "remove"),
    FleetElem("F", F50, "add"), FleetElem("F", F50, "remove")}

ElemSeqs == UNION {[1..n -> Elems] : n \in 1..MaxHunks}

\* The system elements of an enumerated diff definition: one system element
\* with up to MaxHunks elements, or two with up to MaxHunks between them; the
\* system "NoSys" does not exist.
HunkTargets == {"S1", "NoSys"}
HunkBodies ==
   {<<SystemElem(s, cs)>> : s \in HunkTargets, cs \in ElemSeqs}
   \cup {<<SystemElem(st[1], cs1), SystemElem(st[2], cs2)>> :
            st \in {t \in HunkTargets \X HunkTargets : t[1] # t[2]},
            cs1 \in ElemSeqs,
            cs2 \in {cs \in ElemSeqs : Len(cs) = 1}}

\* Definitions documents with the one diff "X", in every such form.
HunkDocs ==
   {XmlDoc("unidiffs", <<UnidiffElem("X", body)>>) :
       body \in {b \in HunkBodies :
                    Len(b[1].children) + (IF Len(b) = 2 THEN 1 ELSE 0) <= MaxHunks}}

\* A definitions document with three diffs; the second definition of "X" is
\* never reached by the lookup.
DocA ==
   XmlDoc("unidiffs",
      <<OtherElem,
        UnidiffElem("X", <<SystemElem("S1", <<PlanetElem("A", "add"),
                                               FleetElem("F", F50, "add")>>)>>),
        UnidiffElem("Y", <<SystemElem("NoSys", <<PlanetElem("A", "add")>>),
                           SystemElem("S2", <<PlanetElem("A", "remove")>>)>>),
        UnidiffElem("Z", <<SystemElem("S1", <<PlanetElem("A", "remove")>>),
                           OtherElem,
                           SystemElem("S2", <<FleetElem("F", F50, "add")>>)>>),
        UnidiffElem("X", <<SystemElem("S2", <<PlanetElem("A", "add")>>)>>)>>)

\* A later version of the data: "Y" is gone, "X" and "Z" are redefined.
DocB ==
   XmlDoc("unidiffs",
      <<UnidiffElem("Z", <<SystemElem("S2", <<PlanetElem("A", "add"),
                                               PlanetElem("A", "remove")>>)>>),
        UnidiffElem("X", <<SystemElem("S2", <<FleetElem("F", F50, "remove")>>)>>)>>)

\* The elements of the definitions of SpecText: the text of an element may be
\* neither add nor remove.
TextElems ==
   {PlanetElem("A", "add"), PlanetElem("A", "remove"), PlanetElem("A", "foo"),
    FleetElem("F", F50, "add"), FleetElem("F", F50, "foo")}

TextSeqs == UNION {[1..n -> TextElems] : n \in 1..MaxHunks}

\* The system elements of such a definition: one system element with up to
\* MaxHunks elements, or two system elements with one element each; a system
\* element may have no name attribute (NULL).
TextTargets == {"S1", "S2", NULL}
TextBodies ==
   {<<SystemElem(s, cs)>> : s \in {"S1", NULL}, cs \in TextSeqs}
   \cup {<<SystemElem(st[1], <<es[1]>>), SystemElem(st[2], <<es[2]>>)>> :
            st \in {t \in TextTargets \X TextTargets : t[1] # t[2]},
            es \in TextElems \X TextElems}

\* Definitions documents with the one diff "X", in every such form.
TextDocs == {XmlDoc("unidiffs", <<UnidiffElem("X", body)>>) : body \in TextBodies}

\* Malformed documents: a wrong root element, a root without elements.
DocBadRoot ==
   XmlDoc("Start",
      <<UnidiffElem("X", <<SystemElem("S1", <<PlanetElem("A", "add")>>)>>)>>)
DocNoElements == XmlDoc("unidiffs", <<>>)

DataDocs == {DocA, DocB, DocBadRoot, DocNoElements}

\* What the uninitialised local hunk of diff_patch may hold on entry.  Its
\* type is read only for a planet or fleet element whose text is neither
\* "add" nor "remove": for a document without such an element one content
\* stands for all.
HunkTypes ==
   {HUNK_TYPE_NONE, HUNK_TYPE_PLANET_ADD, HUNK_TYPE_PLANET_REMOVE,
    HUNK_TYPE_FLEET_ADD, HUNK_TYPE_FLEET_REMOVE}
Range(f) == {f[i] : i \in DOMAIN f}
ElemTexts(d) ==
   UNION {UNION {{e.text : e \in Range(sys.children)} : sys \in Range(u.children)} :
             u \in Range(d.children)}
UninitHunks(d) ==
   {UniHunk(HUNK_TARGET_NONE, NULL, t, PlanetData(NULL)) :
       t \in IF ElemTexts(d) \subseteq {"add", "remove"}
             THEN {HUNK_TYPE_NONE} ELSE HunkTypes}

\* The document save.c hands to diff_load: the diffs element among the other
\* elements of the save.
SaveFile(elem) == <<[tag |-> "player", children |-> <<>>], elem>>

\* The names of the diffs of a definitions document that the lookup can find.
DocNames == {"X", "Y", "Z"}

\* Sequences without repetition over a set of names.
DistinctSeqs(S) ==
   {ns \in UNION {[1..n -> S] : n \in 0..Cardinality(S)} :
       \A i, j \in 1..Len(ns) : i # j => ns[i] # ns[j]}

NamesElem(ns) ==
   [tag |-> "diffs", children |-> [i \in 1..Len(ns) |-> DiffElem(ns[i])]]

\* The save documents of every stack of diffs with distinct names.
SavedFiles == {SaveFile(NamesElem(ns)) : ns \in DistinctSeqs(DocNames)}

\* Save documents that diff_save did not write: an unknown name, a repeated
\* entry, a foreign element among the entries, two diffs elements.
OtherSaves ==
   {SaveFile(NamesElem(<<"Y", "W", "X", "Y">>)),
    SaveFile([tag |-> "diffs",
              children |-> <<[tag |-> "other", text |-> "Z"], DiffElem("Z")>>]),
    <<NamesElem(<<"X">>), NamesElem(<<"Z">>)>>}

(***************************************************************************)
(* scripts/queue.lua.  A Queue is a table: the fields first and last, and  *)
(* the elements at integer keys (items); a key without a value reads nil.  *)
(***************************************************************************)
NIL == "nil"

\* The values the scripts put into a queue.
QueueVals == {"a", "b"}

\* The table without a value at any integer key.
NoItems == [k \in {} |-> NIL]

\* q[k]
Index(q, k) == IF k \in DOMAIN q.items THEN q.items[k] ELSE NIL

\* q[k] = val, q[k] = nil
SetIndex(q, k, val) ==
   [q EXCEPT !.items = [j \in DOMAIN q.items \cup {k} |->
                           IF j = k THEN val ELSE q.items[j]]]
ClearIndex(q, k) ==
   [q EXCEPT !.items = [j \in DOMAIN q.items \ {k} |-> q.items[j]]]

Queue_new == [first |-> 0, last |-> -1, items |-> NoItems]

Queue_enqueue(q, val) ==
   SetIndex([q EXCEPT !.last = q.last + 1], q.last + 1, val)

\* What dequeue does: it raises the error and leaves the queue, or returns
\* q[q.first] and moves first on.
Queue_dequeue(q) ==
   IF q.first < q.last
   THEN [err |-> TRUE, ret |-> NIL, q |-> q]
   ELSE [err |-> FALSE, ret |-> Index(q, q.first),
         q |-> [ClearIndex(q, q.first) EXCEPT !.first = q.first + 1]]

\* An isEmpty that compares with <= instead of <.
Queue_isEmpty_le(q) == q.first <= q.last

Queue_isEmpty(q) == q.first < q.last

(***************************************************************************)
(* Callers.                                                                *)
(***************************************************************************)
diff_nstack == Len(diff_stack)

NoElem == [tag |-> "none", children |-> <<>>]

\* What a call leaves in last: the function and its argument (name or
\* parent), whether a diff of that name was applied on entry and at which
\* place of the stack (0 for none), the universe on
\* entry, the return value, the world-mutator calls in order, the heap events
\* in order, the names of the
\* diffs removed in order, and the element written.
Called(op, name, parent, ret, calls, mem, removed, out) ==
   [op |-> op, name |-> name, parent |-> parent,
    was |-> (diff_get(diff_stack, name) # 0), at |-> diff_get(diff_stack, name),
    world0 |-> world,
    ret |-> ret, calls |-> calls, mem |-> mem, removed |-> removed, out |-> out,
    fault |-> FALSE]

\* What strdup(NULL) may do.  It is called only for a planet or fleet element
\* of a system element without a name: for a document without such a system
\* element one build stands for all.
StrdupNull(d) ==
   IF \E u \in Range(d.children) : \E sys \in Range(u.children) : sys.name = NULL
   THEN {"SIGSEGV", "NULL"} ELSE {"NULL"}

\* The process runs: no call has killed it.
Running == ~last.fault

InitState(docs, worlds) ==
   /\ diff_stack = <<>>
   /\ world \in worlds
   /\ doc \in docs
   /\ strdup_null \in StrdupNull(doc)
   /\ last = [op |-> "none", name |-> NULL, parent |-> <<>>, was |-> FALSE,
              at |-> 0, world0 |-> world, ret |-> 0, calls |-> <<>>, mem |-> <<>>,
              removed |-> <<>>,
              out |-> NoElem, fault |-> FALSE]
   /\ queue = Queue_new
   /\ qcall = [op |-> "new", val |-> NIL, ret |-> NIL, err |-> FALSE,
               underflow |-> FALSE]

\* The universes a run starts from: no item is held twice.
InitWorlds == Worlds(1)

Init == InitState(DataDocs, InitWorlds)

Apply(name) ==
   \E hunk0 \in UninitHunks(doc) :
      LET r == diff_apply(diff_stack, world, doc, name, hunk0)
      IN /\ Running
         /\ WorldOK(r.world)
         /\ diff_stack' = r.stack
         /\ world' = r.world
         /\ last' = [Called("diff_apply", name, <<>>, r.ret, r.calls, r.mem, <<>>,
                             NoElem) EXCEPT !.fault = r.fault]
         /\ UNCHANGED <<doc, strdup_null, queue, qcall>>

Remove(name) ==
   LET r == diff_remove(diff_stack, world, name)
   IN /\ Running
      /\ WorldOK(r.world)
      /\ diff_stack' = r.stack
      /\ world' = r.world
      /\ last' = Called("diff_remove", name, <<>>, r.ret, r.calls, r.mem,
                        IF Len(r.stack) < Len(diff_stack) THEN <<name>> ELSE <<>>,
                        NoElem)
      /\ UNCHANGED <<doc, strdup_null, queue, qcall>>

Clear ==
   LET r == diff_clear(diff_stack, world)
   IN /\ Running
      /\ WorldOK(r.world)
      /\ diff_stack' = r.stack
      /\ world' = r.world
      /\ last' = Called("diff_clear", NULL, <<>>, VOID, r.calls, r.mem, r.removed, NoElem)
      /\ UNCHANGED <<doc, strdup_null, queue, qcall>>

Save ==
   /\ Running
   /\ last' = Called("diff_save", NULL, <<>>, 0, <<>>, <<>>, <<>>, diff_save(diff_stack))
   /\ UNCHANGED <<diff_stack, world, doc, strdup_null, queue, qcall>>

Load(parent) ==
   \E hunk0 \in UninitHunks(doc) :
      LET r == diff_load(diff_stack, world, doc, parent, hunk0)
      IN /\ Running
         /\ WorldOK(r.world)
         /\ diff_stack' = r.stack
         /\ world' = r.world
         /\ last' = [Called("diff_load", NULL, parent, 0, r.calls, r.mem, r.removed,
                             NoElem) EXCEPT !.fault = r.fault]
         /\ UNCHANGED <<doc, strdup_null, queue, qcall>>

Next ==
   \/ \E name \in Names : Apply(name)
   \/ \E name \in Names : Remove(name)
   \/ Clear
   \/ Save
   \/ \E parent \in SavedFiles \cup OtherSaves : Load(parent)

Spec == Init /\ [][Next]_vars

\* The callers of one diff and its definition in every form: a definitions
\* document with the diff "X" alone, applied, removed and cleared.
InitHunks ==
   InitState(HunkDocs, {w \in InitWorlds :
                           /\ PlanetSet(w, "S2") = {}
                           /\ FleetSet(w, "S2") = {}})

NextHunks ==
   \/ \E name \in {"X", "W"} : Apply(name)
   \/ \E name \in {"X", "W"} : Remove(name)
   \/ Clear

SpecHunks == InitHunks /\ [][NextHunks]_vars

\* The callers of one diff whose definition may hold elements with a text
\* other than add and remove and system elements without a name.
InitText ==
   InitState(TextDocs, {w \in InitWorlds :
                           /\ PlanetSet(w, "S2") = {}
                           /\ FleetSet(w, "S2") = {}})

NextText ==
   \/ Apply("X")
   \/ Remove("X")
   \/ Clear

SpecText == InitText /\ [][NextText]_vars

\* The calls of a script on one Queue.  underflow records that dequeue was
\* called, and went through, on a queue with nothing at q.first.
Enqueue(val) ==
   /\ queue.last < MaxIndex
   /\ queue' = Queue_enqueue(queue, val)
   /\ qcall' = [qcall EXCEPT !.op = "enqueue", !.val = val, !.ret = NIL,
                             !.err = FALSE]
   /\ UNCHANGED <<diff_stack, world, doc, strdup_null, last>>

Dequeue ==
   LET r == Queue_dequeue(queue)
   IN /\ queue.first <= MaxIndex
      /\ queue' = r.q
      /\ qcall' = [qcall EXCEPT !.op = "dequeue", !.val = NIL, !.ret = r.ret,
                                !.err = r.err,
                                !.underflow = @ \/ (~r.err /\ r.ret = NIL)]
      /\ UNCHANGED <<diff_stack, world, doc, strdup_null, last>>

IsEmpty ==
   /\ qcall' = [qcall EXCEPT !.op = "isEmpty", !.val = NIL,
                             !.ret = Queue_isEmpty(queue), !.err = FALSE]
   /\ UNCHANGED <<diff_stack, world, doc, strdup_null, last, queue>>

InitQueue == InitState({DocNoElements}, {CHOOSE w \in InitWorlds : TRUE})

NextQueue ==
   \/ \E val \in QueueVals : Enqueue(val)
   \/ Dequeue
   \/ IsEmpty

SpecQueue == InitQueue /\ [][NextQueue]_vars

(***************************************************************************)
(* Properties.                                                             *)
(***************************************************************************)
\* The names of the records of a stack, in stack order.
StackNames(stack) == [i \in 1..Len(stack) |-> stack[i].name]

\* A record named name is in the stack.
Active(stack, name) == \E i \in 1..Len(stack) : stack[i].name = name

\* C1 (apply idempotence): a diff_apply of a name that is active returns 0
\* and changes nothing: the stack (length, order, every record's applied and
\* failed hunks) and the universe are as before, no world mutator is called,
\* and diff_isApplied is still true for the name.
C1_ApplyIdempotent ==
   [][(last'.op = "diff_apply" /\ Active(diff_stack, last'.name))
         => /\ last'.ret = 0
            /\ diff_stack' = diff_stack
            /\ world' = world
            /\ last'.calls = <<>>
            /\ diff_isApplied(diff_stack', last'.name) = 1]_vars

\* A diff_apply of the active diff "X" has returned, with another diff above
\* it in the stack.
C1_Witness ==
   /\ last.op = "diff_apply"
   /\ last.name = "X"
   /\ last.was
   /\ Len(diff_stack) >= 2
   /\ diff_stack[1].name = "X"

\* C2 (name uniqueness): no two records of the diff stack have the same name.
C2_UniqueNames ==
   \A i, j \in 1..Len(diff_stack) :
      i # j => diff_stack[i].name # diff_stack[j].name

\* Two diffs are active after a diff_load of a save that lists one name
\* twice.
C2_Witness ==
   /\ Len(diff_stack) = 2
   /\ last.op = "diff_load"
   /\ \E i, j \in 1..Len(last.parent[2].children) :
         /\ i # j
         /\ last.parent[2].children[i] = last.parent[2].children[j]

\* The record named name in a stack that holds one.
TheDiff(stack, name) == stack[CHOOSE i \in 1..Len(stack) : stack[i].name = name]

\* The last call was a diff_apply that created the last record of the stack.
Created ==
   /\ last.op = "diff_apply"
   /\ ~last.was
   /\ Len(diff_stack) > 0
   /\ diff_stack[Len(diff_stack)].name = last.name

\* C3 (revert restores prior state): when diff_apply created a diff all of
\* whose hunks succeeded at the world mutators, and the next call is the
\* diff_remove of that diff, every system's planet set and fleet set is
\* afterwards what it was before the diff_apply.
C3_RevertRestores ==
   [][(/\ Created
       /\ diff_stack[Len(diff_stack)].failed = <<>>
       /\ \A k \in 1..Len(last.calls) : last.calls[k].ret = 0
       /\ last'.op = "diff_remove"
       /\ last'.name = last.name)
         => SameSets(world', last.world0)]_vars

\* The world mutator that undoes what a hunk of the given type did.
InverseFn(type) ==
   CASE type = HUNK_TYPE_PLANET_ADD -> "system_rmPlanet"
     [] type = HUNK_TYPE_PLANET_REMOVE -> "system_addPlanet"
     [] type = HUNK_TYPE_FLEET_ADD -> "system_rmFleet"
     [] type = HUNK_TYPE_FLEET_REMOVE -> "system_addFleet"

\* What the universe sees of the revert of a hunk: the mutator, the system
\* name and the data.
InverseOf(hunk) ==
   [fn |-> InverseFn(hunk.type), sys |-> hunk.target.name, u |-> hunk.u]

\* A call without its return value.
Sent(call) == [fn |-> call.fn, sys |-> call.sys, u |-> call.u]

\* The applied hunks of a diff are H1 = add planet p, H2 = remove planet p, of
\* one system.
AddThenRemove(diff) ==
   /\ Len(diff.applied) = 2
   /\ diff.applied[1].type = HUNK_TYPE_PLANET_ADD
   /\ diff.applied[2].type = HUNK_TYPE_PLANET_REMOVE
   /\ diff.applied[1].target = diff.applied[2].target
   /\ diff.applied[1].u = diff.applied[2].u

\* The diff_remove of an active diff whose applied hunks are H1, H2 as above.
RemovesAddThenRemove ==
   /\ last'.op = "diff_remove"
   /\ Active(diff_stack, last'.name)
   /\ AddThenRemove(TheDiff(diff_stack, last'.name))

C5_RevertInAppliedOrder ==
   [][(last'.op = "diff_remove" /\ Active(diff_stack, last'.name))
         => LET diff == TheDiff(diff_stack, last'.name)
            IN /\ Len(last'.calls) = Len(diff.applied)
               /\ \A k \in 1..Len(diff.applied) :
                     Sent(last'.calls[k]) = InverseOf(diff.applied[k])]_vars

\* A diff_remove has reverted two hunks of different kinds: a planet hunk
\* first, a fleet hunk second.
C5_Witness ==
   /\ last.op = "diff_remove"
   /\ last.removed # <<>>
   /\ Len(last.calls) = 2
   /\ last.calls[1].u.member = "name"
   /\ last.calls[2].u.member = "fleet"

\* The definitions document is well formed: its root is unidiffs and has
\* elements.
WellFormed(d) == d.root = "unidiffs" /\ d.children # <<>>

\* The document has a unidiff element of the name.
Defines(d, name) ==
   \E i \in 1..Len(d.children) :
      d.children[i].tag = "unidiff" /\ d.children[i].name = name

\* The first unidiff element of the name.
Definition(d, name) ==
   d.children[CHOOSE i \in 1..Len(d.children) :
                 /\ d.children[i].tag = "unidiff" /\ d.children[i].name = name
                 /\ \A j \in 1..(i - 1) :
                       ~(d.children[j].tag = "unidiff" /\ d.children[j].name = name)]

\* The hunk a planet or fleet element of a system element stands for.
HunkOf(sysname, e) ==
   UniHunk(HUNK_TARGET_SYSTEM, sysname,
           CASE e.tag = "planet" /\ e.text = "add" -> HUNK_TYPE_PLANET_ADD
             [] e.tag = "planet" /\ e.text = "remove" -> HUNK_TYPE_PLANET_REMOVE
             [] e.tag = "fleet" /\ e.text = "add" -> HUNK_TYPE_FLEET_ADD
             [] e.tag = "fleet" /\ e.text = "remove" -> HUNK_TYPE_FLEET_REMOVE,
           IF e.tag = "planet" THEN [member |-> "name", name |-> e.name, chance |-> 0]
           ELSE [member |-> "fleet", name |-> e.name,
                 chance |-> 10 * e.chance[1] + e.chance[2]])

\* The hunks of a diff definition, in document order.
RECURSIVE HunksFrom(_, _)
HunksFrom(nodes, i) ==
   IF i > Len(nodes) THEN <<>>
   ELSE IF nodes[i].tag = "system"
   THEN [k \in 1..Len(nodes[i].children) |->
            HunkOf(nodes[i].name, nodes[i].children[k])] \o HunksFrom(nodes, i + 1)
   ELSE HunksFrom(nodes, i + 1)

ParsedHunks(def) == HunksFrom(def.children, 1)

\* The world mutator a hunk of the given type is applied with.
ForwardFn(type) ==
   CASE type = HUNK_TYPE_PLANET_ADD -> "system_addPlanet"
     [] type = HUNK_TYPE_PLANET_REMOVE -> "system_rmPlanet"
     [] type = HUNK_TYPE_FLEET_ADD -> "system_addFleet"
     [] type = HUNK_TYPE_FLEET_REMOVE -> "system_rmFleet"

ForwardOf(hunk) ==
   [fn |-> ForwardFn(hunk.type), sys |-> hunk.target.name, u |-> hunk.u]

\* The elements of seq at the indices in K, in the order of seq.
RECURSIVE PickFrom(_, _, _)
PickFrom(seq, K, i) ==
   IF i > Len(seq) THEN <<>>
   ELSE (IF i \in K THEN <<seq[i]>> ELSE <<>>) \o PickFrom(seq, K, i + 1)

\* C6 (partial-failure tolerance): a diff_apply that finds the definition of
\* a diff that is not active returns 0 whatever number of hunks fail; it calls
\* the world mutator once per hunk of the definition, in document order, and
\* nothing else (no hunk is rolled back); the new record's applied sequence is
\* the hunks whose call succeeded and its failed sequence the hunks whose call
\* failed, both in document order.  A later diff_remove sends the inverses of
\* the applied hunks only, one call per applied hunk.
C6_PartialFailure ==
   [][/\ (/\ last'.op = "diff_apply"
          /\ ~Active(diff_stack, last'.name)
          /\ WellFormed(doc)
          /\ Defines(doc, last'.name))
            => LET hunks == ParsedHunks(Definition(doc, last'.name))
                   diff == diff_stack'[Len(diff_stack')]
                   n == Len(hunks)
               IN /\ last'.ret = 0
                  /\ Len(diff_stack') = Len(diff_stack) + 1
                  /\ diff.name = last'.name
                  /\ Len(last'.calls) = n
                  /\ \A k \in 1..n : Sent(last'.calls[k]) = ForwardOf(hunks[k])
                  /\ diff.applied =
                        PickFrom(hunks, {k \in 1..n : last'.calls[k].ret = 0}, 1)
                  /\ diff.failed =
                        PickFrom(hunks, {k \in 1..n : last'.calls[k].ret # 0}, 1)
      /\ (last'.op = "diff_remove" /\ Active(diff_stack, last'.name))
            => LET diff == TheDiff(diff_stack, last'.name)
               IN /\ Len(last'.calls) = Len(diff.applied)
                  /\ \A k \in 1..Len(diff.applied) :
                        /\ last'.calls[k].sys = diff.applied[k].target.name
                        /\ last'.calls[k].u = diff.applied[k].u
                        /\ last'.calls[k].fn # ForwardFn(diff.applied[k].type)]_vars

\* A diff_apply has created a diff whose first hunk failed and whose second
\* hunk was applied.
C6_Witness ==
   /\ Created
   /\ Len(last.calls) = 2
   /\ last.calls[1].ret < 0
   /\ last.calls[2].ret = 0
   /\ Len(diff_stack[Len(diff_stack)].applied) = 1
   /\ Len(diff_stack[Len(diff_stack)].failed) = 1

\* C7 (not-found is non-fatal): a diff_apply of a name that is not active and
\* has no unidiff element in a well-formed definitions document returns a
\* value other than 0 and leaves the stack and the universe as they were.
C7_NotFound ==
   [][(/\ last'.op = "diff_apply"
       /\ ~Active(diff_stack, last'.name)
       /\ WellFormed(doc)
       /\ ~Defines(doc, last'.name))
         => /\ last'.ret # 0
            /\ diff_stack' = diff_stack
            /\ world' = world
            /\ last'.calls = <<>>]_vars

\* A diff_apply of "Y", which the document does not define, has failed while
\* another diff is active.
C7_Witness ==
   /\ last.op = "diff_apply"
   /\ last.name = "Y"
   /\ ~Defines(doc, "Y")
   /\ WellFormed(doc)
   /\ last.ret = -1
   /\ Len(diff_stack) >= 1

\* C8 (malformed definition aborts with failure): when the root of the
\* definitions document is not unidiffs or the root has no elements, a
\* diff_apply of a name that is not active returns a value other than 0 and
\* leaves the stack and the universe as they were.
C8_MalformedFails ==
   [][(/\ last'.op = "diff_apply"
       /\ ~Active(diff_stack, last'.name)
       /\ ~WellFormed(doc))
         => /\ last'.ret # 0
            /\ diff_stack' = diff_stack
            /\ world' = world]_vars

\* The names a save document lists when it is the document of a stack ns.
IsSaveOf(parent, ns) ==
   /\ Len(parent) = 2
   /\ parent[1].tag # "diffs"
   /\ parent[2].tag = "diffs"
   /\ Len(parent[2].children) = Len(ns)
   /\ \A k \in 1..Len(ns) : parent[2].children[k] = [tag |-> "diff", text |-> ns[k]]

\* C9 (save/load round trip): diff_save writes a diffs element that lists the
\* names of the active diffs in stack order and nothing else; and a diff_load
\* of the save document of a stack whose diffs the definitions document all
\* defines, from whatever stack, leaves a stack with exactly those names in
\* that order.
C9_SaveLoadRoundTrip ==
   [][/\ last'.op = "diff_save"
            => /\ last'.out.tag = "diffs"
               /\ Len(last'.out.children) = Len(diff_stack)
               /\ \A k \in 1..Len(diff_stack) :
                     last'.out.children[k] =
                        [tag |-> "diff", text |-> diff_stack[k].name]
               /\ diff_stack' = diff_stack
               /\ world' = world
      /\ (last.op = "diff_save" /\ last'.op = "diff_load"
          /\ last'.parent = SaveFile(last.out)
          /\ WellFormed(doc)
          /\ \A k \in 1..Len(diff_stack) : Defines(doc, diff_stack[k].name))
            => StackNames(diff_stack') = StackNames(diff_stack)
      /\ last'.op = "diff_load"
            => \A ns \in DistinctSeqs(DocNames) :
                  (/\ IsSaveOf(last'.parent, ns)
                   /\ WellFormed(doc)
                   /\ \A k \in 1..Len(ns) : Defines(doc, ns[k]))
                     => StackNames(diff_stack') = ns]_vars

\* A diff_load of the save of the stack Z, Y, X has removed two other diffs
\* and left the stack Z, Y, X.
C9_Witness ==
   /\ last.op = "diff_load"
   /\ IsSaveOf(last.parent, <<"Z", "Y", "X">>)
   /\ Len(last.removed) = 2
   /\ StackNames(diff_stack) = <<"Z", "Y", "X">>

\* A sequence in reverse order.
Reverse(seq) == [k \in 1..Len(seq) |-> seq[Len(seq) + 1 - k]]

\* C10 (clear terminates with an empty stack): diff_clear returns after
\* removing every active diff, one at a time, from the most recently applied
\* to the least recently applied; afterwards the stack is empty and
\* diff_isApplied is false for every name.
C10_ClearEmpties ==
   [][last'.op = "diff_clear"
         => /\ last'.removed = Reverse(StackNames(diff_stack))
            /\ diff_stack' = <<>>
            /\ \A name \in Names : diff_isApplied(diff_stack', name) = 0]_vars

\* A diff_clear has removed three diffs.
C10_Witness ==
   /\ last.op = "diff_clear"
   /\ Len(last.removed) = 3
   /\ diff_stack = <<>>

\* C11 (clear restores the baseline world): when diff_apply on an empty stack
\* created a diff none of whose hunks failed, and the next call is diff_clear,
\* every system's planet set and fleet set is afterwards what it was before
\* the diff_apply, also when the diff adds and removes the same item.
C11_ClearRestoresBaseline ==
   [][(/\ Created
       /\ Len(diff_stack) = 1
       /\ diff_stack[1].failed = <<>>
       /\ \A k \in 1..Len(last.calls) : last.calls[k].ret = 0
       /\ last'.op = "diff_clear")
         => /\ diff_stack' = <<>>
            /\ SameSets(world', last.world0)]_vars

\* The names a persisted document lists: the text of every diff element of
\* every diffs element, in document order.
RECURSIVE EntryNames(_, _)
EntryNames(parent, i) ==
   IF i > Len(parent) THEN <<>>
   ELSE (IF parent[i].tag = "diffs"
         THEN LET es == parent[i].children
              IN [k \in 1..Len(PickFrom(es, {j \in 1..Len(es) : es[j].tag = "diff"}, 1)) |->
                    PickFrom(es, {j \in 1..Len(es) : es[j].tag = "diff"}, 1)[k].text]
         ELSE <<>>) \o EntryNames(parent, i + 1)

\* The first occurrences of the names of ns that the definitions document d
\* has a diff for, in the order of ns.
FirstFound(d, ns) ==
   PickFrom(ns, {k \in 1..Len(ns) :
                    /\ WellFormed(d)
                    /\ Defines(d, ns[k])
                    /\ \A j \in 1..(k - 1) : ns[j] # ns[k]}, 1)

\* What the universe sees of the revert of every diff of a stack, the last
\* diff first, the applied hunks of a diff in their order.
RECURSIVE RevertsOf(_)
RevertsOf(stack) ==
   IF stack = <<>> THEN <<>>
   ELSE LET diff == stack[Len(stack)]
        IN [k \in 1..Len(diff.applied) |-> InverseOf(diff.applied[k])]
              \o RevertsOf(SubSeq(stack, 1, Len(stack) - 1))

\* C12 (load replaces the active set and never aborts partway): diff_load
\* first removes and reverts every active diff, the last one first, then
\* applies the entries of the persisted document in document order; an entry
\* the definitions document has no diff for is skipped and the later entries
\* are still applied, a repeated entry does nothing; the stack is afterwards
\* the first occurrences of the entries the definitions document defines, in
\* document order, so a diff that was active and is not listed is not active.
C12_LoadReplaces ==
   [][last'.op = "diff_load"
         => LET ns == EntryNames(last'.parent, 1)
                reverts == RevertsOf(diff_stack)
            IN /\ last'.removed = Reverse(StackNames(diff_stack))
               /\ Len(last'.calls) >= Len(reverts)
               /\ \A k \in 1..Len(reverts) : Sent(last'.calls[k]) = reverts[k]
               /\ StackNames(diff_stack') = FirstFound(doc, ns)
               /\ \A name \in Names :
                     (Active(diff_stack, name) /\ ~\E k \in 1..Len(ns) : ns[k] = name)
                        => ~Active(diff_stack', name)]_vars

\* A diff_load of a document that lists Y, the unknown W, X and Y again has
\* removed the diffs that were active and left the stack Y, X.
C12_Witness ==
   /\ last.op = "diff_load"
   /\ EntryNames(last.parent, 1) = <<"Y", "W", "X", "Y">>
   /\ last.removed # <<>>
   /\ StackNames(diff_stack) = <<"Y", "X">>

\* The records of a stack other than the one named name, in stack order.
Without(stack, name) ==
   PickFrom(stack, {k \in 1..Len(stack) : stack[k].name # name}, 1)

\* C13 as stated (remove of an absent name is a no-op): a diff_remove of a
\* name with no active diff returns a value to the caller, the report that
\* nothing was found, and leaves the stack and the universe as they were
\* without calling a world mutator.
C13_RemoveAbsentReports ==
   [][(last'.op = "diff_remove" /\ ~Active(diff_stack, last'.name))
         => /\ last'.ret # VOID
            /\ diff_stack' = diff_stack
            /\ world' = world
            /\ last'.calls = <<>>]_vars

\* C13 as amended: a diff_remove of a name with no active diff returns no
\* value (the function is void) and leaves the stack (length, order, all
\* records) and the universe as they were without calling a world mutator.
C13_RemoveAbsentNoOp ==
   [][(last'.op = "diff_remove" /\ ~Active(diff_stack, last'.name))
         => /\ last'.ret = VOID
            /\ diff_stack' = diff_stack
            /\ world' = world
            /\ last'.calls = <<>>
            /\ last'.removed = <<>>]_vars

\* A diff_remove of a name that was not active has returned while two other
\* diffs are active.
C13_Witness ==
   /\ last.op = "diff_remove"
   /\ ~last.was
   /\ last.name = "Y"
   /\ Len(diff_stack) = 2

\* C14 (remove is independent of stack position): a diff_remove of an active
\* diff, wherever it is in the stack, removes that record and no other: the
\* stack is one shorter and holds the other records unchanged (name, applied
\* and failed hunks) in the same relative order.
C14_RemoveAnyPosition ==
   [][(last'.op = "diff_remove" /\ Active(diff_stack, last'.name))
         => /\ Len(diff_stack') = Len(diff_stack) - 1
            /\ diff_stack' = Without(diff_stack, last'.name)
            /\ ~Active(diff_stack', last'.name)
            /\ last'.removed = <<last'.name>>]_vars

\* A diff_remove has removed the middle diff of a stack of three.
C14_Witness ==
   /\ last.op = "diff_remove"
   /\ last.at = 2
   /\ Len(diff_stack) = 2

\* How many times an event is in a sequence of heap events.
Count(mem, e) == Cardinality({k \in 1..Len(mem) : mem[k] = e})

\* C15 (scoped release of the definitions document): a diff_apply of a name
\* that is not active reads the definitions file, and whichever way it returns
\* (diff applied, diff not found, root not unidiffs, no elements) it has freed
\* the parsed document once and its buffer once; a diff_apply of an active
\* name acquires nothing.
C15_DocumentReleased ==
   [][last'.op = "diff_apply"
         => LET buf == [owner |-> "diff_apply", list |-> "local", k |-> 0,
                        field |-> "buf"]
                xml == [owner |-> "diff_apply", list |-> "local", k |-> 0,
                        field |-> "doc"]
            IN IF Active(diff_stack, last'.name)
               THEN last'.mem = <<>>
               ELSE /\ Count(last'.mem, [ev |-> "alloc", ptr |-> buf]) = 1
                    /\ Count(last'.mem, [ev |-> "alloc", ptr |-> xml]) = 1
                    /\ Count(last'.mem, [ev |-> "free", ptr |-> buf]) = 1
                    /\ Count(last'.mem, [ev |-> "free", ptr |-> xml]) = 1]_vars


\* C17 (best-effort revert): when the world mutator fails for the inverse of
\* an applied hunk during diff_remove, the inverses of the later applied hunks
\* are still sent, each hunk's inverse is sent once (the failed one is not
\* sent again), and the diff is removed: diff_isApplied is false afterwards.
C17_BestEffortRevert ==
   [][(/\ last'.op = "diff_remove"
       /\ Active(diff_stack, last'.name)
       /\ \E k \in 1..Len(last'.calls) : last'.calls[k].ret < 0)
         => LET diff == TheDiff(diff_stack, last'.name)
                first == CHOOSE k \in 1..Len(last'.calls) :
                            /\ last'.calls[k].ret < 0
                            /\ \A j \in 1..(k - 1) : last'.calls[j].ret = 0
            IN /\ Len(last'.calls) = Len(diff.applied)
               /\ \A k \in (first + 1)..Len(diff.applied) :
                     Sent(last'.calls[k]) = InverseOf(diff.applied[k])
               /\ \A k \in 1..Len(diff.applied) :
                     Sent(last'.calls[k]) = InverseOf(diff.applied[k])
               /\ diff_isApplied(diff_stack', last'.name) = 0
               /\ Len(diff_stack') = Len(diff_stack) - 1]_vars

\* A diff_remove has sent two inverses: the universe refused the first (a
\* fleet that was no longer there) and took the second, and the diff is gone.
C17_Witness ==
   /\ last.op = "diff_remove"
   /\ last.was
   /\ Len(last.calls) = 2
   /\ last.calls[1].fn = "system_rmFleet"
   /\ last.calls[1].ret < 0
   /\ last.calls[2].ret = 0
   /\ ~Active(diff_stack, last.name)

\* The heap strings a diff owns: its name, the target name of every hunk of
\* applied and failed, and the name of every hunk that was parsed from a planet
\* element.  The fleet of a hunk parsed from a fleet element is a reference to
\* a fleet definition, which the diff does not own.
OwnedIn(name, list, hunks) ==
   {[owner |-> name, list |-> list, k |-> k, field |-> "target.u.name"] :
       k \in {j \in 1..Len(hunks) : hunks[j].target.name # "NULL"}}
   \cup {[owner |-> name, list |-> list, k |-> k, field |-> "u.name"] :
            k \in {j \in 1..Len(hunks) : hunks[j].u.member = "name"}}

Owned(diff) ==
   {[owner |-> diff.name, list |-> "diff", k |-> 0, field |-> "name"]}
   \cup OwnedIn(diff.name, "applied", diff.applied)
   \cup OwnedIn(diff.name, "failed", diff.failed)

\* The pointers of diffs a call has freed (not the locals of diff_apply).
Freed(mem) ==
   {mem[k].ptr : k \in {j \in 1..Len(mem) :
                           mem[j].ev = "free" /\ mem[j].ptr.list # "local"}}

\* C16 (ownership of hunk data): a diff_remove, diff_clear or diff_load frees
\* every heap string owned by the diffs it removes exactly once, whether the
\* hunk is in applied or in failed, and frees nothing else: no fleet
\* definition reference, nothing twice, and nothing owned is left allocated.
C16_OwnedFreedOnce ==
   [][last'.op \in {"diff_remove", "diff_clear", "diff_load"}
         => LET gone == {i \in 1..Len(diff_stack) :
                            \E k \in 1..Len(last'.removed) :
                               last'.removed[k] = diff_stack[i].name}
                owned == UNION {Owned(diff_stack[i]) : i \in gone}
            IN /\ Freed(last'.mem) = owned
               /\ \A p \in owned :
                     Count(last'.mem, [ev |-> "free", ptr |-> p]) = 1]_vars

\* The kinds of planet hunks and of fleet hunks.
PlanetKinds == {"HUNK_TYPE_PLANET_ADD", "HUNK_TYPE_PLANET_REMOVE"}
FleetKinds == {"HUNK_TYPE_FLEET_ADD", "HUNK_TYPE_FLEET_REMOVE"}

\* The kind of a hunk is consistent with its payload.
Consistent(hunk) ==
   /\ hunk.u.member = "name" => hunk.type \in PlanetKinds
   /\ hunk.u.member = "fleet" => hunk.type \in FleetKinds

\* C18 (kind/payload consistency): every hunk in the applied or failed
\* sequence of an active diff has a planet kind when it was parsed from a
\* planet element (it carries a name) and a fleet kind when it was parsed from
\* a fleet element (it carries a fleet spec), whatever the text of the
\* elements.
C18_KindMatchesPayload ==
   \A i \in 1..Len(diff_stack) :
      /\ \A k \in 1..Len(diff_stack[i].applied) : Consistent(diff_stack[i].applied[k])
      /\ \A k \in 1..Len(diff_stack[i].failed) : Consistent(diff_stack[i].failed[k])

\* The planet and fleet elements of a diff definition, in document order.
RECURSIVE ElementsFrom(_, _)
ElementsFrom(nodes, i) ==
   IF i > Len(nodes) THEN <<>>
   ELSE IF nodes[i].tag = "system"
   THEN nodes[i].children \o ElementsFrom(nodes, i + 1)
   ELSE ElementsFrom(nodes, i + 1)

\* The places of a sequence of elements whose text is add or remove.
GoodText(es) == {k \in 1..Len(es) : es[k].text \in {"add", "remove"}}

\* All elements of the definition have a system element with a name above
\* them.
AllNamed(def) ==
   \A i \in 1..Len(def.children) :
      def.children[i].tag = "system" => def.children[i].name # "NULL"

\* C19 (an element whose text is neither add nor remove): a diff_apply that
\* parses a diff definition calls a world mutator for the elements whose text
\* is add or remove and for no other element, so an element with another text
\* changes nothing in the universe; such an element is never in applied, so
\* nothing is done for it at removal.
C19_OtherTextNoMutation ==
   [][(/\ last'.op = "diff_apply"
       /\ ~Active(diff_stack, last'.name)
       /\ WellFormed(doc)
       /\ Defines(doc, last'.name)
       /\ AllNamed(Definition(doc, last'.name)))
         => LET es == ElementsFrom(Definition(doc, last'.name).children, 1)
                diff == diff_stack'[Len(diff_stack')]
            IN /\ Len(last'.calls) = Cardinality(GoodText(es))
               /\ Len(diff.applied) <= Cardinality(GoodText(es))
               /\ Len(diff.failed) >= Len(es) - Cardinality(GoodText(es))
               /\ (GoodText(es) = {} => SameSets(world', world))]_vars

\* The planet and fleet elements under the system elements without a name.
RECURSIVE NamelessFrom(_, _)
NamelessFrom(nodes, i) ==
   IF i > Len(nodes) THEN <<>>
   ELSE IF nodes[i].tag = "system" /\ nodes[i].name = "NULL"
   THEN nodes[i].children \o NamelessFrom(nodes, i + 1)
   ELSE NamelessFrom(nodes, i + 1)

\* C20 (missing system name): a diff_apply that parses a diff definition with
\* a system element without a name goes on parsing: it returns 0, every planet
\* and fleet element of the definition has its hunk in the new record, the
\* hunks under the system element without a name have no target name and are
\* in failed, and they change nothing in the universe.
C20_MissingSystemName ==
   [][(/\ last'.op = "diff_apply"
       /\ ~Active(diff_stack, last'.name)
       /\ WellFormed(doc)
       /\ Defines(doc, last'.name)
       /\ NamelessFrom(Definition(doc, last'.name).children, 1) # <<>>)
         => LET def == Definition(doc, last'.name)
                diff == diff_stack'[Len(diff_stack')]
                nameless == {k \in 1..Len(diff.failed) :
                                diff.failed[k].target.name = "NULL"}
            IN /\ ~last'.fault
               /\ last'.ret = 0
               /\ Len(diff.applied) + Len(diff.failed)
                     = Len(ElementsFrom(def.children, 1))
               /\ Cardinality(nameless) = Len(NamelessFrom(def.children, 1))
               /\ \A k \in 1..Len(diff.applied) :
                     diff.applied[k].target.name # "NULL"
               /\ \A k \in 1..Len(last'.calls) :
                     last'.calls[k].sys = "NULL" => last'.calls[k].ret < 0]_vars

\* The persisted document lists the name.
Lists(parent, name) ==
   \E k \in 1..Len(EntryNames(parent, 1)) : EntryNames(parent, 1)[k] = name

\* C21 (isApplied tracks activation): after every call diff_isApplied of a
\* name is true exactly when the stack holds a record of that name.  It
\* becomes true at a diff_apply of the name that finds it in the definitions
\* document, keeps its value across diff_apply and diff_remove of other names
\* and across diff_save, and is false after diff_remove of the name, after
\* diff_clear, and after a diff_load whose document does not list the name.
C21_IsAppliedTracks ==
   [][\A name \in Names :
         LET before == diff_isApplied(diff_stack, name) = 1
             after == diff_isApplied(diff_stack', name) = 1
         IN /\ after <=> Active(diff_stack', name)
            /\ (/\ last'.op = "diff_apply" /\ last'.name = name
                /\ WellFormed(doc) /\ Defines(doc, name)) => after
            /\ (last'.op = "diff_apply" /\ last'.name = name /\ ~after)
                  => (~before /\ (last'.ret # 0 \/ ~WellFormed(doc)))
            /\ (last'.op \in {"diff_apply", "diff_remove"} /\ last'.name # name)
                  => (after <=> before)
            /\ last'.op = "diff_save" => (after <=> before)
            /\ (last'.op = "diff_remove" /\ last'.name = name) => ~after
            /\ last'.op = "diff_clear" => ~after
            /\ (last'.op = "diff_load" /\ ~Lists(last'.parent, name)) => ~after]_vars

\* A diff_remove of another name has returned and diff_isApplied is still
\* true for X, which was applied before that other diff, and false for the
\* name removed.
C21_Witness ==
   /\ last.op = "diff_remove"
   /\ last.was
   /\ last.name = "Y"
   /\ last.at = 1
   /\ diff_isApplied(diff_stack, "X") = 1
   /\ diff_isApplied(diff_stack, "Y") = 0

\* How many elements a queue holds: the integer keys with a value.
Held(q) == Cardinality({k \in DOMAIN q.items : q.items[k] # "nil"})

\* What the last isEmpty call returned, when the last call was isEmpty, is
\* what isEmpty gives for the queue.
Returned(b) == qcall.op = "isEmpty" => qcall.ret = b

\* C22 as stated (the emptiness check is inverted): in every state a script
\* reaches with Queue.new, enqueue and dequeue, isEmpty returns true when the
\* queue holds at least one element and false when it holds none.
C22_IsEmptyInverted ==
   /\ Queue_isEmpty(queue) <=> (Held(queue) >= 1)
   /\ Returned(Held(queue) >= 1)

\* C22 as amended: isEmpty returns false when the queue holds no element and
\* when it holds exactly one, and true only when it holds at least two; as
\* long as dequeue has not been called on a queue without elements, it returns
\* true exactly when the queue holds at least two elements.
C22_IsEmptyFromTwo ==
   /\ Held(queue) \in {0, 1} => ~Queue_isEmpty(queue)
   /\ Queue_isEmpty(queue) => Held(queue) >= 2
   /\ ~qcall.underflow => (Queue_isEmpty(queue) <=> Held(queue) >= 2)
   /\ ~qcall.underflow => Returned(Held(queue) >= 2)
   /\ Returned(queue.first < queue.last)

\* isEmpty has returned false for a queue that holds exactly one element,
\* after enqueue and dequeue calls that never found the queue without
\* elements.
C22_Witness ==
   /\ qcall.op = "isEmpty"
   /\ qcall.ret = FALSE
   /\ ~qcall.underflow
   /\ Held(queue) = 1
   /\ queue.first > 0

====
